---- MODULE Spec2Model ----
(***************************************************************************)
(* The CSS selector builder of src/src/05-objects-tasks.js: class Check    *)
(* (the builder) and the cssSelectorBuilder facade.                        *)
(*                                                                         *)
(* Strings are TLA+ strings, += is \o.  Objects live in a heap: a builder  *)
(* is identified by its index in heap, so two references to the same       *)
(* builder are the same index.                                             *)
(***************************************************************************)
EXTENDS Integers, Sequences, FiniteSets, TLC

\* Bound of the model: the number of calls made (facade, fragment, combine
\* and stringify calls together).
MaxCalls == 3

\* The argument values the calls are made with (opaque text).
Values == {"a", "b"}

\* The combinator texts handed to combine (any text is accepted).
Combinators == {"+", " "}

Kinds == {"element", "id", "class", "attr", "pseudoClass", "pseudoElement"}

\* The two messages thrown, and the marker of a call that returned normally.
DuplicateFragmentError == "Element, id and pseudo-element should not occur more then one time inside the selector"

OutOfOrderError == "Selector parts should be arranged in the following order: element, id, class, attribute, pseudo-class, pseudo-element"

NoError == "none"

\* The rank each fragment method pushes on this.order.
Rank(kind) ==
    CASE kind = "element"       -> 0
      [] kind = "id"            -> 1
      [] kind = "class"         -> 2
      [] kind = "attr"          -> 3
      [] kind = "pseudoClass"   -> 4
      [] kind = "pseudoElement" -> 5

\* this.order[i + 1] past the end of the array is undefined.
Undefined == -1

\* order[i] with JavaScript's out-of-range read (i is 1-based here).
OrderAt(order, i) == IF i \in 1..Len(order) THEN order[i] ELSE Undefined

\* GreaterThan with >= written for >.
GreaterThanOrEqual(el, x) == IF x = Undefined THEN FALSE ELSE el >= x

\* The comparison written as !(el <= x), which is true for undefined.
GreaterThanNotLessEqual(el, x) == IF x = Undefined THEN TRUE ELSE ~(el <= x)

\* el > x: a comparison with undefined is false (undefined converts to NaN).
GreaterThan(el, x) == IF x = Undefined THEN FALSE ELSE el > x

\* checkOrder with the scan stopping one pair early: the newest pair is
\* only compared on the next call.
checkOrderSkipsLast(order) ==
    \E i \in 1..(Len(order) - 2) : GreaterThan(order[i], OrderAt(order, i + 1))

\* checkOrder comparing the first pair only.
checkOrderFirstPair(order) ==
    Len(order) >= 2 /\ GreaterThan(order[1], OrderAt(order, 2))

\* checkOrder as a single comparison of the two newest entries.
checkOrderLastPair(order) ==
    Len(order) >= 2
    /\ GreaterThan(order[Len(order) - 1], OrderAt(order, Len(order)))

\* checkOrder(): TRUE when the forEach throws, i.e. some entry is greater
\* than its successor.  The scan covers the whole array on every call.
checkOrder(order) ==
    \E i \in 1..Len(order) : GreaterThan(order[i], OrderAt(order, i + 1))

\* constructor(val = '')
Check(val) ==
    [test |-> val, id1 |-> FALSE, element1 |-> FALSE,
     pseudoElement1 |-> FALSE, order |-> <<>>]

\* The outcome of a method body: the object's fields when the method ends
\* (by return or by throw) and the error thrown, if any.
Outcome(obj, err) == [obj |-> obj, err |-> err]

\* The tail taking the rank off again when checkOrder throws.
PushAndCheckPopsOnError(self, rank) ==
    LET o == [self EXCEPT !.order = Append(@, rank)]
    IN  IF checkOrder(o.order)
        THEN Outcome(self, OutOfOrderError)
        ELSE Outcome(o, NoError)

\* The tail shared by the six methods: push the rank, checkOrder, return this.
PushAndCheck(self, rank) ==
    LET o == [self EXCEPT !.order = Append(@, rank)]
    IN  Outcome(o, IF checkOrder(o.order) THEN OutOfOrderError ELSE NoError)

\* element appending its text before the duplicate guard.
Check_elementAppendsFirst(self, value) ==
    IF self.element1
    THEN Outcome([self EXCEPT !.test = @ \o value], DuplicateFragmentError)
    ELSE PushAndCheck([self EXCEPT !.test = @ \o value, !.element1 = TRUE], 0)

Check_element(self, value) ==
    IF self.element1
    THEN Outcome(self, DuplicateFragmentError)
    ELSE PushAndCheck([self EXCEPT !.test = @ \o value, !.element1 = TRUE], 0)

\* id appending its text before the duplicate guard.
Check_idAppendsFirst(self, value) ==
    IF self.id1
    THEN Outcome([self EXCEPT !.test = @ \o "#" \o value], DuplicateFragmentError)
    ELSE PushAndCheck([self EXCEPT !.test = @ \o "#" \o value, !.id1 = TRUE], 1)

\* id without setting its flag.
Check_idForgetsFlag(self, value) ==
    IF self.id1
    THEN Outcome(self, DuplicateFragmentError)
    ELSE PushAndCheck([self EXCEPT !.test = @ \o "#" \o value], 1)

Check_id(self, value) ==
    IF self.id1
    THEN Outcome(self, DuplicateFragmentError)
    ELSE PushAndCheck([self EXCEPT !.test = @ \o "#" \o value, !.id1 = TRUE], 1)

\* class pushing and checking its rank before appending its text.
Check_classChecksFirst(self, value) ==
    LET r == PushAndCheck(self, 2)
    IN  IF r.err = NoError
        THEN Outcome([r.obj EXCEPT !.test = @ \o "." \o value], NoError)
        ELSE r

Check_class(self, value) ==
    PushAndCheck([self EXCEPT !.test = @ \o "." \o value], 2)

\* attr without the closing bracket.
Check_attrUnclosed(self, value) ==
    PushAndCheck([self EXCEPT !.test = @ \o "[" \o value], 3)

Check_attr(self, value) ==
    PushAndCheck([self EXCEPT !.test = @ \o "[" \o value \o "]"], 3)

Check_pseudoClass(self, value) ==
    PushAndCheck([self EXCEPT !.test = @ \o ":" \o value], 4)

\* pseudoElement without the duplicate guard.
Check_pseudoElementUnguarded(self, value) ==
    PushAndCheck([self EXCEPT !.test = @ \o "::" \o value,
                              !.pseudoElement1 = TRUE], 5)

Check_pseudoElement(self, value) ==
    IF self.pseudoElement1
    THEN Outcome(self, DuplicateFragmentError)
    ELSE PushAndCheck([self EXCEPT !.test = @ \o "::" \o value,
                                   !.pseudoElement1 = TRUE], 5)

\* stringify()
stringify(self) == self.test

\* combine without the spaces around the combinator.
combineUnpadded(selector1, combinator, selector2) ==
    stringify(selector1) \o combinator \o stringify(selector2)

\* combine writing the descendant combinator as a single space.
combineNormalised(selector1, combinator, selector2) ==
    IF combinator = " "
    THEN stringify(selector1) \o " " \o stringify(selector2)
    ELSE stringify(selector1) \o " " \o combinator \o " " \o stringify(selector2)

\* The argument combine hands to the constructor.
combine(selector1, combinator, selector2) ==
    stringify(selector1) \o " " \o combinator \o " " \o stringify(selector2)

\* Method dispatch by name.
Method(kind, self, value) ==
    CASE kind = "element"       -> Check_element(self, value)
      [] kind = "id"            -> Check_id(self, value)
      [] kind = "class"         -> Check_class(self, value)
      [] kind = "attr"          -> Check_attr(self, value)
      [] kind = "pseudoClass"   -> Check_pseudoClass(self, value)
      [] kind = "pseudoElement" -> Check_pseudoElement(self, value)

(***************************************************************************)
(* State.                                                                  *)
(*   heap   the Check objects constructed so far, by identity              *)
(*   hist   per object: the constructor argument, whether combine made it, *)
(*          and the fragment calls made on it with their outcome           *)
(*   ret    the last call: its name, receiver, arguments and what it       *)
(*          returned or threw                                              *)
(*   calls  the number of calls made so far                                *)
(***************************************************************************)
VARIABLES heap, hist, ret, calls

vars == <<heap, hist, ret, calls>>

Live == 1..Len(heap)

NoCall ==
    [op |-> "none", facade |-> FALSE, self |-> 0, args |-> <<>>,
     err |-> NoError, obj |-> 0, str |-> ""]

Init ==
    /\ heap = <<>>
    /\ hist = <<>>
    /\ ret = NoCall
    /\ calls = 0

\* One entry of an object's call log.
Entry(kind, value, err) == [kind |-> kind, value |-> value, err |-> err]

\* b.kind(value) on the builder b: the method runs on heap[b]; it returns
\* this (the same b) or throws, leaving the fields as they were at the throw.
Invoke(b, kind, value) ==
    LET r == Method(kind, heap[b], value)
    IN  /\ calls < MaxCalls
        /\ heap' = [heap EXCEPT ![b] = r.obj]
        /\ hist' = [hist EXCEPT ![b].log = Append(@, Entry(kind, value, r.err))]
        /\ ret' = [op |-> kind, facade |-> FALSE, self |-> b, args |-> <<value>>,
                   err |-> r.err, obj |-> IF r.err = NoError THEN b ELSE 0,
                   str |-> ""]
        /\ calls' = calls + 1

\* The facade keeping one Check for all chains instead of a new one per call.
StartSingleton(kind, value) ==
    LET fresh == heap = <<>>
        b == 1
        r == Method(kind, IF fresh THEN Check("") ELSE heap[b], value)
        e == Entry(kind, value, r.err)
    IN  /\ calls < MaxCalls
        /\ heap' = IF fresh THEN <<r.obj>> ELSE [heap EXCEPT ![b] = r.obj]
        /\ hist' = IF fresh
                   THEN <<[val |-> "", combined |-> FALSE, log |-> <<e>>]>>
                   ELSE [hist EXCEPT ![b].log = Append(@, e)]
        /\ ret' = [op |-> kind, facade |-> TRUE, self |-> b, args |-> <<value>>,
                   err |-> r.err, obj |-> IF r.err = NoError THEN b ELSE 0,
                   str |-> ""]
        /\ calls' = calls + 1

\* cssSelectorBuilder.kind(value): new Check().kind(value).
Start(kind, value) ==
    LET b == Len(heap) + 1
        r == Method(kind, Check(""), value)
    IN  /\ calls < MaxCalls
        /\ heap' = Append(heap, r.obj)
        /\ hist' = Append(hist, [val |-> "", combined |-> FALSE,
                                 log |-> <<Entry(kind, value, r.err)>>])
        /\ ret' = [op |-> kind, facade |-> TRUE, self |-> b, args |-> <<value>>,
                   err |-> r.err, obj |-> IF r.err = NoError THEN b ELSE 0,
                   str |-> ""]
        /\ calls' = calls + 1

CallElement == \E b \in Live, v \in Values : Invoke(b, "element", v)

CallId == \E b \in Live, v \in Values : Invoke(b, "id", v)

CallClass == \E b \in Live, v \in Values : Invoke(b, "class", v)

CallAttr == \E b \in Live, v \in Values : Invoke(b, "attr", v)

CallPseudoClass == \E b \in Live, v \in Values : Invoke(b, "pseudoClass", v)

CallPseudoElement == \E b \in Live, v \in Values : Invoke(b, "pseudoElement", v)

\* stringify handing out the text and clearing it.
CallStringifyConsuming ==
    \E b \in Live :
        /\ calls < MaxCalls
        /\ ret' = [op |-> "stringify", facade |-> FALSE, self |-> b,
                   args |-> <<>>, err |-> NoError, obj |-> 0,
                   str |-> stringify(heap[b])]
        /\ heap' = [heap EXCEPT ![b].test = ""]
        /\ calls' = calls + 1
        /\ UNCHANGED hist

\* b.stringify(): reads this.test, writes nothing.
CallStringify ==
    \E b \in Live :
        /\ calls < MaxCalls
        /\ ret' = [op |-> "stringify", facade |-> FALSE, self |-> b,
                   args |-> <<>>, err |-> NoError, obj |-> 0,
                   str |-> stringify(heap[b])]
        /\ calls' = calls + 1
        /\ UNCHANGED <<heap, hist>>

FacadeElement == \E v \in Values : Start("element", v)

FacadeId == \E v \in Values : Start("id", v)

FacadeClass == \E v \in Values : Start("class", v)

FacadeAttr == \E v \in Values : Start("attr", v)

FacadePseudoClass == \E v \in Values : Start("pseudoClass", v)

FacadePseudoElement == \E v \in Values : Start("pseudoElement", v)

\* combine building its result on a copy of the right operand, flags and
\* ranks included.
FacadeCombineInherits ==
    \E l \in Live, r \in Live, c \in Combinators :
        LET text == combine(heap[l], c, heap[r])
        IN  /\ calls < MaxCalls
            /\ heap' = Append(heap, [heap[r] EXCEPT !.test = text])
            /\ hist' = Append(hist, [val |-> text, combined |-> TRUE, log |-> <<>>])
            /\ ret' = [op |-> "combine", facade |-> TRUE, self |-> 0,
                       args |-> <<l, c, r>>, err |-> NoError,
                       obj |-> Len(heap) + 1, str |-> ""]
            /\ calls' = calls + 1

\* cssSelectorBuilder.combine(selector1, combinator, selector2): the two
\* operands are stringified and a new Check is built from the text.
FacadeCombine ==
    \E l \in Live, r \in Live, c \in Combinators :
        LET text == combine(heap[l], c, heap[r])
        IN  /\ calls < MaxCalls
            /\ heap' = Append(heap, Check(text))
            /\ hist' = Append(hist, [val |-> text, combined |-> TRUE, log |-> <<>>])
            /\ ret' = [op |-> "combine", facade |-> TRUE, self |-> 0,
                       args |-> <<l, c, r>>, err |-> NoError,
                       obj |-> Len(heap) + 1, str |-> ""]
            /\ calls' = calls + 1

Next ==
    \/ CallElement
    \/ CallId
    \/ CallClass
    \/ CallAttr
    \/ CallPseudoClass
    \/ CallPseudoElement
    \/ CallStringify
    \/ FacadeElement
    \/ FacadeId
    \/ FacadeClass
    \/ FacadeAttr
    \/ FacadePseudoClass
    \/ FacadePseudoElement
    \/ FacadeCombine

Spec == Init /\ [][Next]_vars

TypeOK ==
    /\ Len(hist) = Len(heap)
    /\ calls \in 0..MaxCalls
    /\ \A b \in Live : heap[b].order \in Seq(0..5)

(***************************************************************************)
(* Vocabulary of the properties: what the call log of a builder says, in   *)
(* terms of the selector grammar and not of the builder's fields.          *)
(***************************************************************************)

Uniques == {"element", "id", "pseudoElement"}

\* The rendered form of one fragment.
Render(kind, value) ==
    CASE kind = "element"       -> value
      [] kind = "id"            -> "#" \o value
      [] kind = "class"         -> "." \o value
      [] kind = "attr"          -> "[" \o value \o "]"
      [] kind = "pseudoClass"   -> ":" \o value
      [] kind = "pseudoElement" -> "::" \o value

RECURSIVE RenderAll(_)
\* The rendered forms of a sequence of log entries, concatenated in order.
RenderAll(entries) ==
    IF entries = <<>> THEN ""
    ELSE Render(Head(entries).kind, Head(entries).value) \o RenderAll(Tail(entries))

Ranks(entries) == [i \in 1..Len(entries) |-> Rank(entries[i].kind)]

NonDecreasing(s) == \A i \in 1..(Len(s) - 1) : s[i] <= s[i + 1]

\* The calls of the log that added a fragment: all but the ones rejected as
\* duplicates.
NotDuplicate(entry) == entry.err # DuplicateFragmentError

Added(entries) == SelectSeq(entries, NotDuplicate)

\* A sequence of calls that honours rank order and uniqueness.
HonoursOrder(entries) == NonDecreasing(Ranks(entries))

HonoursUniqueness(entries) ==
    \A i, j \in 1..Len(entries) :
        (i < j /\ entries[i].kind = entries[j].kind) => entries[i].kind \notin Uniques

\* The last call was a fragment call (on a builder or through the facade).
FragmentCall == ret.op \in Kinds

\* The log of the receiver of the last fragment call, before that call.
Before == SubSeq(hist[ret.self].log, 1, Len(hist[ret.self].log) - 1)

\* The ranks recorded on the receiver before the last fragment call.
RanksBefore == Ranks(Added(Before))

RaisedOrderBefore == \E i \in 1..Len(Before) : Before[i].err = OutOfOrderError

\* C1: every sequence of fragment calls started from the facade that honours
\* rank order and uniqueness raises nothing, and stringify() is exactly the
\* concatenation of the fragments' rendered forms in call order.
ValidSequenceRenders ==
    \A b \in Live :
        LET log == hist[b].log
        IN  (~hist[b].combined /\ HonoursOrder(log) /\ HonoursUniqueness(log))
            => /\ \A i \in 1..Len(log) : log[i].err = NoError
               /\ stringify(heap[b]) = RenderAll(log)

\* Three valid calls on one builder, two of them of the same kind with
\* different values.
ValidSequenceWitness ==
    \E b \in Live :
        LET log == hist[b].log
        IN  /\ ~hist[b].combined /\ HonoursOrder(log) /\ HonoursUniqueness(log)
            /\ Len(log) = 3
            /\ log[2].kind = log[3].kind /\ log[2].value # log[3].value
            /\ log[1].kind = "id"

\* C2: once an element (id, pseudo-element) fragment was added to a builder,
\* a further element (id, pseudoElement) call on it raises the duplicate
\* error, whatever was added in between, also when it is out of rank order.
RepeatedUniqueRaisesDuplicate ==
    (FragmentCall /\ ret.op \in Uniques
     /\ \E i \in 1..Len(Before) : Before[i].kind = ret.op /\ NotDuplicate(Before[i]))
    => ret.err = DuplicateFragmentError

\* element, then a fragment of higher rank, then element again.
RepeatedUniqueWitness ==
    /\ FragmentCall /\ ret.op = "element" /\ ret.err = DuplicateFragmentError
    /\ Len(Before) = 2 /\ Before[1].kind = "element"
    /\ Rank(Before[2].kind) > 0

\* C3 as stated: a fragment call of rank strictly less than the rank added
\* last raises the order error, and a call of rank greater or equal does not.
LowerRankRaisesOrderAlways ==
    (FragmentCall /\ RanksBefore # <<>>)
    => LET last == RanksBefore[Len(RanksBefore)]
       IN  /\ Rank(ret.op) < last => ret.err = OutOfOrderError
           /\ Rank(ret.op) >= last => ret.err # OutOfOrderError

\* C3, amended: of the calls that are not rejected as duplicates, one of rank
\* strictly less than the rank added last raises the order error, and one of
\* rank greater or equal does not, provided no earlier call on that builder
\* raised the order error.
LowerRankRaisesOrder ==
    (FragmentCall /\ RanksBefore # <<>> /\ ret.err # DuplicateFragmentError)
    => LET last == RanksBefore[Len(RanksBefore)]
       IN  /\ Rank(ret.op) < last => ret.err = OutOfOrderError
           /\ (Rank(ret.op) >= last /\ ~RaisedOrderBefore)
                  => ret.err # OutOfOrderError

\* class after attr raises; the receiver had two fragments in order.
LowerRankWitness ==
    /\ FragmentCall /\ ret.op = "class" /\ ret.err = OutOfOrderError
    /\ RanksBefore = <<2, 3>>

\* C4: the recorded rank sequence of a builder is non-decreasing exactly when
\* no call on it ever raised the order error, and the error is raised by the
\* very call that adds the offending rank.
OrderedIffNeverRaised ==
    \A b \in Live :
        LET log == hist[b].log
            added == Added(log)
        IN  /\ NonDecreasing(heap[b].order)
                <=> (\A i \in 1..Len(log) : log[i].err # OutOfOrderError)
            /\ \A i \in 1..Len(added) :
                   (/\ NonDecreasing(Ranks(SubSeq(added, 1, i - 1)))
                    /\ ~NonDecreasing(Ranks(SubSeq(added, 1, i))))
                   => added[i].err = OutOfOrderError

\* A builder whose third call added the offending rank and raised.
OrderedIffWitness ==
    \E b \in Live :
        /\ Len(hist[b].log) = 3
        /\ hist[b].log[2].err = NoError
        /\ hist[b].log[3].err = OutOfOrderError
        /\ ~NonDecreasing(heap[b].order)

\* The step is a fragment call (on a builder or through the facade).
FragmentStep == ret'.op \in Kinds /\ calls' = calls + 1

\* The step is a combine call.
CombineStep == ret'.op = "combine" /\ calls' = calls + 1

\* The step is a stringify call.
StringifyStep == ret'.op = "stringify" /\ calls' = calls + 1

\* C5: combine never raises and returns a new builder whose text is
\* left.stringify() + ' ' + combinator + ' ' + right.stringify(); the
\* operands (and every other builder) are left as they were.
CombineConcatenates ==
    [][CombineStep =>
        LET l == ret'.args[1]
            c == ret'.args[2]
            r == ret'.args[3]
            new == ret'.obj
        IN  /\ ret'.err = NoError
            /\ new \notin Live
            /\ new \in 1..Len(heap')
            /\ stringify(heap'[new])
                  = stringify(heap[l]) \o " " \o c \o " " \o stringify(heap[r])
            /\ \A b \in Live : heap'[b] = heap[b]]_vars

\* Two different builders combined, the left one holding fragments.
CombineWitness ==
    /\ ret.op = "combine"
    /\ ret.args[1] # ret.args[3]
    /\ heap[ret.args[1]].order # <<>>
    /\ stringify(heap[ret.args[1]]) # stringify(heap[ret.args[3]])

\* The flat text of three selectors joined by two combinators, one space on
\* each side of each combinator.
Flat(A, c1, B, c2, C) ==
    stringify(A) \o " " \o c1 \o " " \o stringify(B)
                 \o " " \o c2 \o " " \o stringify(C)

\* C6: combine is associative on the rendered text.  For every builder X
\* made by combine(L, c, R), every other builder D and combinator d: nesting
\* X on the right of D, or D on the right of X, renders the same as the
\* other nesting of the same three selectors, and both are the flat
\* concatenation with one space on each side of each combinator.
CombineAssociative ==
    [][CombineStep =>
        LET L == heap[ret'.args[1]]
            c == ret'.args[2]
            R == heap[ret'.args[3]]
            X == heap'[ret'.obj]
        IN  \A b \in Live :
                \A d \in Combinators :
                    LET D == heap[b]
                    IN  /\ combine(D, d, X) = combine(Check(combine(D, d, L)), c, R)
                        /\ combine(D, d, X) = Flat(D, d, L, c, R)
                        /\ combine(X, d, D) = combine(L, c, Check(combine(R, d, D)))
                        /\ combine(X, d, D) = Flat(L, c, R, d, D)]_vars

\* A combined builder combined again with a literal space: three spaces.
NestedCombineWitness ==
    /\ ret.op = "combine"
    /\ hist[ret.args[1]].combined
    /\ ret.args[2] = " "
    /\ stringify(heap[ret.obj]) = "a + a   a"

\* C7: stringify() changes nothing of any builder, and consecutive calls on
\* a builder return the same string.
StringifyPure ==
    [][StringifyStep =>
        /\ heap' = heap
        /\ ret'.err = NoError
        /\ (ret.op = "stringify" /\ ret.self = ret'.self) => ret'.str = ret.str]_vars

\* stringify() on a builder after a failed call.
StringifyWitness ==
    /\ ret.op = "stringify"
    /\ \E i \in 1..Len(hist[ret.self].log) : hist[ret.self].log[i].err # NoError
    /\ ret.str = stringify(heap[ret.self])

\* A call of this kind on a builder with this log breaks neither rule, and
\* the log shows no earlier order error.
ValidAfter(log, kind) ==
    LET added == Added(log)
    IN  /\ \A i \in 1..Len(log) : log[i].err # OutOfOrderError
        /\ kind \in Uniques => \A i \in 1..Len(added) : added[i].kind # kind
        /\ added # <<>> => Rank(kind) >= Rank(added[Len(added)].kind)

\* C8: a call that raises the duplicate error leaves the builder's state as
\* it was, so that a valid fragment call made next on it succeeds.
DuplicateLeavesState ==
    [][FragmentStep =>
        LET b == ret'.self
        IN  /\ ret'.err = DuplicateFragmentError => (b \in Live /\ heap' = heap)
            /\ (/\ ret.op \in Kinds /\ ret.err = DuplicateFragmentError
                /\ ret.self = b
                /\ ValidAfter(hist[b].log, ret'.op))
               => ret'.err = NoError]_vars

\* element, element again (rejected), then id, which succeeds.
DuplicateRecoveryWitness ==
    /\ FragmentCall /\ ret.err = NoError
    /\ Len(Before) = 2
    /\ Before[2].err = DuplicateFragmentError

\* C9 as stated: the call that raises the duplicate error has appended the
\* fragment's text before raising.
DuplicateAppendsText ==
    [][(FragmentStep /\ ret'.err = DuplicateFragmentError) =>
        stringify(heap'[ret'.self])
            = stringify(heap[ret'.self]) \o Render(ret'.op, ret'.args[1])]_vars

\* C9, amended: the call that raises the duplicate error raises before
\* appending anything; stringify() after it returns what it returned before.
DuplicateAppendsNothing ==
    [][(FragmentStep /\ ret'.err = DuplicateFragmentError) =>
        stringify(heap'[ret'.self]) = stringify(heap[ret'.self])]_vars

\* id('a') then id('b'): rejected, and the text is still '#a'.
DuplicateIdWitness ==
    /\ FragmentCall /\ ret.op = "id" /\ ret.err = DuplicateFragmentError
    /\ ret.args = <<"b">>
    /\ stringify(heap[ret.self]) = "#a"

\* Two builders with the same constructor argument and the same calls are in
\* the same state, whatever was called on other builders in between.
SameCallsSameState ==
    \A b1, b2 \in Live : hist[b1] = hist[b2] => heap[b1] = heap[b2]

\* C10: a facade call makes a fresh builder; a fragment call changes only
\* the builder it is made on and returns that builder; a builder's state
\* depends only on the calls made on it.
BuildersIndependent ==
    [][FragmentStep =>
        LET b == ret'.self
        IN  /\ ret'.facade => (b \notin Live /\ Len(heap') = Len(heap) + 1)
            /\ ~ret'.facade => (b \in Live /\ Len(heap') = Len(heap))
            /\ \A c \in Live \ {b} : heap'[c] = heap[c]
            /\ ret'.err = NoError => ret'.obj = b
            /\ SameCallsSameState']_vars

\* Two builders from the facade, then a failing call on the first.
IndependentWitness ==
    /\ FragmentCall /\ ~ret.facade
    /\ Len(heap) = 2 /\ ret.self = 1
    /\ ret.err = OutOfOrderError
    /\ ~hist[2].combined

\* C11: in every state of a builder, also after failed calls, the text is
\* the constructor's text followed by the rendered forms of the fragments
\* recorded in the rank sequence, one per entry and in the same order.
TextMatchesOrder ==
    \A b \in Live :
        LET added == Added(hist[b].log)
        IN  /\ heap[b].order = Ranks(added)
            /\ stringify(heap[b]) = hist[b].val \o RenderAll(added)

\* A builder after a call rejected as duplicate and a call that raised the
\* order error.
TextMatchesOrderWitness ==
    \E b \in Live :
        LET log == hist[b].log
        IN  /\ Len(log) = 3
            /\ log[2].err = DuplicateFragmentError
            /\ log[3].err = OutOfOrderError
            /\ Len(heap[b].order) = 2

\* What the selector grammar says of a call of this kind after these calls:
\* a repeated element, id or pseudo-element is a duplicate; otherwise the
\* ranks added so far, with the new one, must be non-decreasing.
Expected(log, kind) ==
    LET added == Added(log)
    IN  IF kind \in Uniques /\ \E i \in 1..Len(added) : added[i].kind = kind
        THEN DuplicateFragmentError
        ELSE IF NonDecreasing(Append(Ranks(added), Rank(kind)))
             THEN NoError
             ELSE OutOfOrderError

\* C12: the builder returned by combine starts with the three flags false
\* and no ranks, whatever its operands hold; a fragment call on a combined
\* builder is accepted or rejected by the fragments added after the combine
\* alone, and an accepted one appends its text to the composite string.
CombinedStartsClean ==
    [][/\ CombineStep =>
            LET new == heap'[ret'.obj]
            IN  /\ ~new.element1 /\ ~new.id1 /\ ~new.pseudoElement1
                /\ new.order = <<>>
       /\ (FragmentStep /\ ~ret'.facade /\ hist[ret'.self].combined) =>
            LET b == ret'.self
            IN  /\ ret'.err = Expected(hist[b].log, ret'.op)
                /\ ret'.err # DuplicateFragmentError =>
                       stringify(heap'[b])
                           = stringify(heap[b]) \o Render(ret'.op, ret'.args[1])]_vars

\* element() accepted on the combination of builders that hold an element.
CombinedStartsCleanWitness ==
    /\ FragmentCall /\ ret.op = "element" /\ ret.err = NoError
    /\ hist[ret.self].combined
    /\ heap[1].element1
    /\ stringify(heap[ret.self]) = "a + aa"

\* The uniqueness flag of a kind, TRUE for the kinds that have none.
Flag(obj, kind) ==
    CASE kind = "element"       -> obj.element1
      [] kind = "id"            -> obj.id1
      [] kind = "pseudoElement" -> obj.pseudoElement1
      [] OTHER                  -> TRUE

\* C13: a fragment call that raises the order error is not rolled back: the
\* text holds the fragment's text, the rank sequence ends with its rank, and
\* for element, id and pseudoElement the uniqueness flag is true.
OrderErrorKeepsChanges ==
    [][(FragmentStep /\ ret'.err = OutOfOrderError) =>
        LET b == ret'.self
        IN  /\ b \in Live
            /\ stringify(heap'[b])
                   = stringify(heap[b]) \o Render(ret'.op, ret'.args[1])
            /\ heap'[b].order = Append(heap[b].order, Rank(ret'.op))
            /\ Flag(heap'[b], ret'.op)]_vars

\* class then element: raised, and the builder reads '.aa' with the element
\* flag set.
OrderErrorKeepsWitness ==
    /\ FragmentCall /\ ret.op = "element" /\ ret.err = OutOfOrderError
    /\ stringify(heap[ret.self]) = ".aa"
    /\ heap[ret.self].element1
    /\ heap[ret.self].order = <<2, 0>>

\* The single comparison: the incoming rank against the rank that was last.
LastRankCompare(ranks, rank) == ranks # <<>> /\ rank < ranks[Len(ranks)]

\* C14: as long as no earlier call on the builder raised the order error,
\* the full rescan of checkOrder raises on a call exactly when the incoming
\* rank is strictly less than the rank that was last before the call, and
\* never when there was none.
RescanEqualsLastCompare ==
    (FragmentCall /\ ret.err # DuplicateFragmentError /\ ~RaisedOrderBefore)
    => LET order == heap[ret.self].order
           single == LastRankCompare(SubSeq(order, 1, Len(order) - 1),
                                     order[Len(order)])
       IN  /\ order[Len(order)] = Rank(ret.op)
           /\ checkOrder(order) <=> single
           /\ ret.err = OutOfOrderError <=> single

\* Two fragments in order, then one of a rank between theirs: the rescan
\* raises on the newest pair, the first pair being in order.
RescanWitness ==
    /\ FragmentCall /\ ret.err = OutOfOrderError /\ ~RaisedOrderBefore
    /\ heap[ret.self].order = <<0, 4, 1>>

\* The positions of a rank in a rank sequence.
Occurrences(order, rank) == {i \in 1..Len(order) : order[i] = rank}

\* The flags of a builder agree with its rank sequence.
FlagsMatchOrder(obj) ==
    /\ obj.element1 <=> Occurrences(obj.order, 0) # {}
    /\ obj.id1 <=> Occurrences(obj.order, 1) # {}
    /\ obj.pseudoElement1 <=> Occurrences(obj.order, 5) # {}
    /\ \A rank \in {0, 1, 5} : Cardinality(Occurrences(obj.order, rank)) <= 1

\* C15: in every state of a builder each uniqueness flag is true exactly
\* when its rank is in the rank sequence, the ranks 0, 1 and 5 occur at most
\* once in it, and a flag that is true never becomes false.
FlagsTrackOrder ==
    [][/\ \A b \in 1..Len(heap') : FlagsMatchOrder(heap'[b])
       /\ \A b \in Live :
              /\ heap[b].element1 => heap'[b].element1
              /\ heap[b].id1 => heap'[b].id1
              /\ heap[b].pseudoElement1 => heap'[b].pseudoElement1]_vars

\* A builder holding element, id and pseudo-element, the three flags set.
FlagsTrackOrderWitness ==
    \E b \in Live :
        /\ heap[b].element1 /\ heap[b].id1 /\ heap[b].pseudoElement1
        /\ heap[b].order = <<0, 1, 5>>

\* The log holds a call that raised this error.
Raised(log, err) == \E i \in 1..Len(log) : log[i].err = err

\* C16: once a call on a builder raised the order error, every later
\* fragment call on it raises the order error or the duplicate error and
\* none returns normally, while each one that passes the duplicate check
\* still appends its text; a builder that only raised the duplicate error
\* still accepts a valid call.
OrderErrorPoisons ==
    [][(FragmentStep /\ ~ret'.facade) =>
        LET b == ret'.self
            log == hist[b].log
        IN  /\ Raised(log, OutOfOrderError) =>
                /\ ret'.err \in {OutOfOrderError, DuplicateFragmentError}
                /\ ret'.obj = 0
                /\ ret'.err # DuplicateFragmentError =>
                       stringify(heap'[b])
                           = stringify(heap[b]) \o Render(ret'.op, ret'.args[1])
            /\ (Raised(log, DuplicateFragmentError) /\ ValidAfter(log, ret'.op))
                   => ret'.err = NoError]_vars

\* class, id (raises the order error), then pseudoElement, of the highest
\* rank: it raises too, and its text is appended.
OrderErrorPoisonsWitness ==
    /\ FragmentCall /\ ret.op = "pseudoElement" /\ ret.err = OutOfOrderError
    /\ RaisedOrderBefore
    /\ heap[ret.self].order = <<2, 1, 5>>
    /\ stringify(heap[ret.self]) = ".a#a::a"

\* C17: each of the six facade calls returns a builder and raises nothing,
\* for any value: checkOrder does not raise on a rank sequence of one entry
\* (the last entry compared with the missing next one is no violation), nor
\* on two adjacent equal ranks.
FacadeNeverRaises ==
    /\ (FragmentCall /\ ret.facade) =>
           /\ ret.err = NoError
           /\ ret.obj = ret.self
           /\ heap[ret.self].order = <<Rank(ret.op)>>
    /\ \A b \in Live :
           LET order == heap[b].order
           IN  /\ Len(order) = 1 => ~checkOrder(order)
               /\ \A i \in 1..(Len(order) - 1) :
                      order[i] = order[i + 1]
                          => ~checkOrder(SubSeq(order, i, i + 1))
    /\ (/\ FragmentCall /\ ~RaisedOrderBefore /\ RanksBefore # <<>>
        /\ ret.err # DuplicateFragmentError
        /\ RanksBefore[Len(RanksBefore)] = Rank(ret.op))
       => ret.err = NoError

\* pseudoElement through the facade, next to a builder holding two classes.
FacadeNeverRaisesWitness ==
    /\ FragmentCall /\ ret.facade /\ ret.op = "pseudoElement"
    /\ ret.err = NoError
    /\ \E b \in Live : heap[b].order = <<2, 2>> /\ ~Raised(hist[b].log, OutOfOrderError)

====
